---- MODULE Spec2Model ----
(***************************************************************************)
(* Issue lifecycle and book production pipeline of the family-news         *)
(* backend (src/backend/app).                                              *)
(*                                                                         *)
(* Calendar dates are proleptic Gregorian ordinals as in datetime.date     *)
(* (0001-01-01 is ordinal 1, a Monday).  The record store is the committed *)
(* content of the database: a write is visible in it only once the handler *)
(* commits.                                                                *)
(***************************************************************************)
EXTENDS Integers, Sequences, FiniteSets, TLC

VARIABLES
    agg,       \* aggregation: posts of one issue, lists read from it, post data
    render,    \* document generator: posts given to generate_pdf, its outcome
    calc,      \* deadline calculator: reference date, policy, results
    today,     \* date.today()
    issues,    \* issues table, in creation order (row index = identity)
    sweep,     \* deadline sweep tasks (DeadlineWorker.check_deadlines)
    hist,      \* history of issue writes and sweep runs (observation only)
    resp,      \* status code of the last answer of POST /family/setup
    posts,     \* posts table: number of committed posts per issue
    preq,      \* post-creation requests in flight
    books,     \* books table, in insertion order
    queue,     \* PDFWorker.queue
    proc,      \* tasks running the book pipeline (worker, admin, regenerate)
    store      \* artifact store and renderer: renders and uploads so far

vars == <<agg, render, calc, today, issues, sweep, hist, resp, posts, preq, books, queue, proc, store>>

(***************************************************************************)
(* Bounds                                                                  *)
(***************************************************************************)
FirstYear == 2024     \* reference dates start on 1 January of this year
MaxRefDay == 800      \* ... and range over this many following days
MaxYears == 4         \* years the calendar lookups cover from FirstYear on

(***************************************************************************)
(* datetime.date: ordinals, fields, weekday                                *)
(***************************************************************************)
IsLeap(y) == (y % 4 = 0 /\ y % 100 # 0) \/ (y % 400 = 0)

DaysInMonth(y, m) ==
    IF m = 2 THEN (IF IsLeap(y) THEN 29 ELSE 28)
    ELSE IF m \in {4, 6, 9, 11} THEN 30 ELSE 31

RECURSIVE DaysBeforeMonth(_, _)
DaysBeforeMonth(y, m) ==
    IF m = 1 THEN 0 ELSE DaysBeforeMonth(y, m - 1) + DaysInMonth(y, m - 1)

DaysBeforeYear(y) ==
    LET z == y - 1 IN z * 365 + (z \div 4) - (z \div 100) + (z \div 400)

\* date(y, m, d)
DateOrd(y, m, d) == DaysBeforeYear(y) + DaysBeforeMonth(y, m) + d

YearOf(n) ==
    CHOOSE y \in FirstYear..(FirstYear + MaxYears) :
        DaysBeforeYear(y) < n /\ n <= DaysBeforeYear(y + 1)

MonthOf(n) ==
    LET y == YearOf(n)
        r == n - DaysBeforeYear(y)
    IN CHOOSE m \in 1..12 :
        DaysBeforeMonth(y, m) < r /\ r <= DaysBeforeMonth(y, m) + DaysInMonth(y, m)

DayOf(n) ==
    LET y == YearOf(n) IN n - DaysBeforeYear(y) - DaysBeforeMonth(y, MonthOf(n))

\* date.weekday(): 0 = Monday .. 6 = Sunday
Weekday(n) == (n + 6) % 7

(***************************************************************************)
(* models/family.py: DeadlineType                                          *)
(***************************************************************************)
DeadlineType == {"SECOND_SUNDAY", "FOURTH_SUNDAY"}

\* Attribute access DeadlineType.<name>: a member, or AttributeError
DeadlineTypeAttr(name) ==
    IF name \in DeadlineType THEN [err |-> "", val |-> name]
    ELSE [err |-> "AttributeError", val |-> ""]

\* Result of a date computation: a date, or the exception that ended it
Date(n) == [err |-> "", val |-> n]
Raise(e) == [err |-> e, val |-> 0]

(***************************************************************************)
(* services/deadline_service.py                                            *)
(***************************************************************************)
\* Variant that forgets the year rollover after December
RECURSIVE NthSundayNoYearRollover(_, _)
NthSundayNoYearRollover(reference_date, week_number) ==
    LET year == YearOf(reference_date)
        month == MonthOf(reference_date)
        first_day == DateOrd(year, month, 1)
        first_sunday == first_day + ((6 - Weekday(first_day)) % 7)
        nth_sunday == first_sunday + 7 * (week_number - 1)
        next_month == IF month < 12 THEN month + 1 ELSE 1
    IN IF MonthOf(nth_sunday) # month \/ nth_sunday <= reference_date
         THEN NthSundayNoYearRollover(DateOrd(year, next_month, 1), week_number)
       ELSE nth_sunday

RECURSIVE _get_nth_sunday_of_month(_, _)
_get_nth_sunday_of_month(reference_date, week_number) ==
    LET year == YearOf(reference_date)
        month == MonthOf(reference_date)
        first_day == DateOrd(year, month, 1)
        first_weekday == Weekday(first_day)
        days_to_first_sunday == (6 - first_weekday) % 7
        first_sunday == first_day + days_to_first_sunday
        nth_sunday == first_sunday + 7 * (week_number - 1)
        next_month == IF month < 12 THEN month + 1 ELSE 1
        next_year == IF month < 12 THEN year ELSE year + 1
    IN IF MonthOf(nth_sunday) # month
         THEN _get_nth_sunday_of_month(DateOrd(next_year, next_month, 1), week_number)
       ELSE IF nth_sunday <= reference_date
         THEN _get_nth_sunday_of_month(DateOrd(next_year, next_month, 1), week_number)
       ELSE nth_sunday

\* calculate_next_deadline(deadline_type, reference_date), reference_date
\* already defaulted to date.today() by the caller when it was None.
\* The comparisons name DeadlineType.SECOND_WEEK / FOURTH_WEEK.
calculate_next_deadline(deadline_type, reference_date) ==
    LET second == DeadlineTypeAttr("SECOND_WEEK")
        fourth == DeadlineTypeAttr("FOURTH_WEEK")
    IN IF second.err # "" THEN Raise(second.err)
       ELSE IF deadline_type = second.val
         THEN Date(_get_nth_sunday_of_month(reference_date, 2))
       ELSE IF fourth.err # "" THEN Raise(fourth.err)
       ELSE IF deadline_type = fourth.val
         THEN Date(_get_nth_sunday_of_month(reference_date, 4))
       ELSE Raise("ValueError")

is_deadline_passed(deadline_date) == today > deadline_date

(***************************************************************************)
(* utils/data_utils.py                                                     *)
(***************************************************************************)
get_next_sunday(d, weekday_index) ==
    LET days_ahead == weekday_index - Weekday(d)
    IN IF days_ahead <= 0 THEN d + days_ahead + 7 ELSE d + days_ahead

\* (start_date.replace(day=28) + timedelta(days=4)).replace(day=1)
NextMonthFirstDay(start_date) ==
    LET x == DateOrd(YearOf(start_date), MonthOf(start_date), 28) + 4
    IN DateOrd(YearOf(x), MonthOf(x), 1)

data_utils_calculate_next_deadline(start_date, deadline_type) ==
    LET first_day_of_month == DateOrd(YearOf(start_date), MonthOf(start_date), 1)
        first_sunday == get_next_sunday(first_day_of_month, 6)
        second_sunday == first_sunday + 7
        fourth_sunday == first_sunday + 21
        first_sunday_next_month == get_next_sunday(NextMonthFirstDay(start_date), 6)
        second == DeadlineTypeAttr("SECOND_SUNDAY")
        fourth == DeadlineTypeAttr("FOURTH_SUNDAY")
    IN IF second.err # "" THEN Raise(second.err)
       ELSE IF deadline_type = second.val
         THEN (IF start_date > second_sunday
                 THEN Date(first_sunday_next_month + 7)
                 ELSE Date(second_sunday))
       ELSE IF fourth.err # "" THEN Raise(fourth.err)
       ELSE IF deadline_type = fourth.val
         THEN (IF start_date > fourth_sunday
                 THEN Date(first_sunday_next_month + 21)
                 ELSE Date(fourth_sunday))
       ELSE Raise("None")

(***************************************************************************)
(* Record store: groups (provisioned outside this subsystem) and issues    *)
(***************************************************************************)
MaxIssues == 2        \* rows the issue-create endpoint may add
MaxDays == 1          \* days the clock may advance
MaxRuns == 2          \* sweep runs started, over all sweep tasks

Groups == {"g1", "g2"}
GroupList == <<"g1", "g2">>
GroupDeadlineType(g) == IF g = "g1" THEN "SECOND_SUNDAY" ELSE "FOURTH_SUNDAY"

Sweepers == {"s1", "s2"}

Day0 == DateOrd(FirstYear, 1, 1)

IssueStatus == {"OPEN", "CLOSED", "PUBLISHED"}

IssueIds == 1..Len(issues)

OpenIssues(g) == {i \in IssueIds : issues[i].group_id = g /\ issues[i].status = "OPEN"}

SetMax(S) == CHOOSE x \in S : \A y \in S : y <= x

\* IssueCRUD.get_current_issue: newest OPEN issue of the group, 0 for None
get_current_issue(g) == IF OpenIssues(g) = {} THEN 0 ELSE SetMax(OpenIssues(g))

\* IssueCRUD.create: the row is always inserted OPEN and committed; closed_at
\* is a nullable column no code assigns (0 for None)
IssueCreate(tbl, obj_in) ==
    Append(tbl, [group_id |-> obj_in.group_id,
                 issue_number |-> obj_in.issue_number,
                 deadline_date |-> obj_in.deadline_date,
                 status |-> "OPEN",
                 closed_at |-> 0])

\* IssueCRUD.close_issue: unconditional write of CLOSED, committed
close_issue(tbl, id) == [tbl EXCEPT ![id].status = "CLOSED"]

\* IssueCRUD.update with obj_in = {"status": value}: setattr of every field
\* given, committed
IssueUpdate(tbl, id, obj_in) == [tbl EXCEPT ![id].status = obj_in.status]

(***************************************************************************)
(* The issue CRUD object called directly: create, close_issue, update      *)
(***************************************************************************)
MaxCalls == 4         \* direct calls made

\* Outcome of the last direct call: which method, on which id, whether it
\* returned or raised, and the number of calls made so far
NoCall == [op |-> "", id |-> 0, out |-> "", n |-> 0]

StoreCreate(obj_in) ==
    /\ resp.n < MaxCalls
    /\ Len(issues) < MaxIssues
    /\ issues' = IssueCreate(issues, obj_in)
    /\ resp' = [op |-> "create", id |-> Len(issues) + 1, out |-> "returned", n |-> resp.n + 1]
    /\ UNCHANGED <<agg, render, calc, today, sweep, hist, posts, preq, books, queue, proc, store>>

\* close_issue(db, issue_id): an id without a row raises ValueError; any row
\* found is written CLOSED, whatever its status
StoreCloseIssue(id) ==
    /\ resp.n < MaxCalls
    /\ IF id \in IssueIds
         THEN /\ issues' = close_issue(issues, id)
              /\ resp' = [op |-> "close_issue", id |-> id, out |-> "returned", n |-> resp.n + 1]
         ELSE /\ issues' = issues
              /\ resp' = [op |-> "close_issue", id |-> id, out |-> "ValueError", n |-> resp.n + 1]
    /\ UNCHANGED <<agg, render, calc, today, sweep, hist, posts, preq, books, queue, proc, store>>

StoreUpdate(id, value) ==
    /\ resp.n < MaxCalls
    /\ id \in IssueIds
    /\ issues' = IssueUpdate(issues, id, [status |-> value])
    /\ resp' = [op |-> "update", id |-> id, out |-> "returned", n |-> resp.n + 1]
    /\ UNCHANGED <<agg, render, calc, today, sweep, hist, posts, preq, books, queue, proc, store>>

(***************************************************************************)
(* api/routes/issues.py, api/routes/family.py                              *)
(***************************************************************************)
Roles == {"LEADER", "MEMBER", "NONE"}

\* Request bodies tried on POST /issues/create
IssueNumbers == {1}
DeadlineInputs == {Day0}

\* POST /issues/create: callers without membership (404) or without the
\* LEADER role (403) are turned away; for a leader, issue_crud.create runs
\* with the request body as it came
create_new_issue(role, issue_data) ==
    /\ Len(issues) < MaxIssues
    /\ role = "LEADER"
    /\ issues' = IssueCreate(issues, issue_data)
    /\ hist' = [hist EXCEPT !.closes = Append(@, 0), !.succ = Append(@, 0)]
    /\ UNCHANGED <<agg, render, calc, today, sweep, resp, posts, preq, books, queue, proc, store>>

\* POST /family/setup by a user without membership (one with membership is
\* turned away, 400): group and recipient are only added to the session, and
\* the handler reads issue_crud (line 70) before the function-local import
\* binds it (line 86), so it always ends in the except branch: rollback,
\* 500, nothing committed
setup_family_group(has_membership) ==
    /\ ~has_membership
    /\ resp' = 500
    /\ UNCHANGED <<agg, render, calc, today, issues, sweep, hist, posts, preq, books, queue, proc, store>>

AdvanceDay ==
    /\ today < Day0 + MaxDays
    /\ today' = today + 1
    /\ UNCHANGED <<agg, render, calc, issues, sweep, hist, resp, posts, preq, books, queue, proc, store>>

(***************************************************************************)
(* workers/deadline_worker.py                                              *)
(***************************************************************************)
\* family_group_crud.get_active_groups
get_active_groups == GroupList

NewRun == [day |-> today, n0 |-> Len(issues), closed |-> {}, created |-> 0, errs |-> 0]

RunsStarted ==
    LET n(s) == Len(hist.runs[s]) + (IF sweep[s].pc = "idle" THEN 0 ELSE 1)
    IN n("s1") + n("s2")

IdleSweep == [pc |-> "idle", todo |-> <<>>, cur |-> 0,
              run |-> [day |-> 0, n0 |-> 0, closed |-> {}, created |-> 0, errs |-> 0]]

\* check_deadlines: open a session, list the groups
StartSweep(s) ==
    /\ sweep[s].pc = "idle"
    /\ RunsStarted < MaxRuns
    /\ sweep' = [sweep EXCEPT ![s] = [pc |-> "scan", todo |-> get_active_groups,
                                       cur |-> 0, run |-> NewRun]]
    /\ UNCHANGED <<agg, render, calc, today, issues, hist, resp, posts, preq, books, queue, proc, store>>

\* The loop moves on to the next group; after the last one the run ends
NextGroup(s, st, h) ==
    IF Tail(st.todo) = <<>>
      THEN /\ sweep' = [sweep EXCEPT ![s] = IdleSweep]
           /\ hist' = [h EXCEPT !.runs[s] = Append(@, st.run)]
      ELSE /\ sweep' = [sweep EXCEPT ![s] = [st EXCEPT !.pc = "scan", !.todo = Tail(@), !.cur = 0]]
           /\ hist' = h

\* _process_group_deadline, lines 36-38: current issue and deadline test
GetCurrent(s) ==
    /\ sweep[s].pc = "scan"
    /\ LET g == Head(sweep[s].todo)
           current_issue == get_current_issue(g)
       IN IF current_issue # 0 /\ is_deadline_passed(issues[current_issue].deadline_date)
            THEN /\ sweep' = [sweep EXCEPT ![s].pc = "close", ![s].cur = current_issue]
                 /\ hist' = hist
            ELSE NextGroup(s, sweep[s], hist)
    /\ UNCHANGED <<agg, render, calc, today, issues, resp, posts, preq, books, queue, proc, store>>

\* _process_group_deadline, lines 40-55: close_issue commits, then the next
\* deadline is computed and the next issue created; an exception at any
\* point is logged and ends the work on this group
CloseAndNext(s) ==
    /\ sweep[s].pc = "close"
    /\ LET g == Head(sweep[s].todo)
           id == sweep[s].cur
           closed == close_issue(issues, id)
           next_deadline == calculate_next_deadline(GroupDeadlineType(g), today)
           h1 == [hist EXCEPT !.closes[id] = @ + 1]
           st1 == [sweep[s] EXCEPT !.run.closed = @ \cup {id}]
       IN IF next_deadline.err # ""
            THEN /\ issues' = closed
                 /\ NextGroup(s, [st1 EXCEPT !.run.errs = @ + 1], h1)
            ELSE /\ issues' = IssueCreate(closed,
                                  [group_id |-> g,
                                   issue_number |-> issues[id].issue_number + 1,
                                   deadline_date |-> next_deadline.val])
                 /\ NextGroup(s, [st1 EXCEPT !.run.created = @ + 1],
                              [h1 EXCEPT !.closes = Append(@, 0),
                                         !.succ = Append([h1.succ EXCEPT ![id] = @ + 1], 0)])
    /\ UNCHANGED <<agg, render, calc, today, resp, posts, preq, books, queue, proc, store>>

(***************************************************************************)
(* api/routes/posts.py, crud/post_crud.py                                  *)
(***************************************************************************)
MAX_POSTS_PER_ISSUE == 20

PostReqs == {"p1", "p2"}
PostKinds == {"create_post", "create_post_with_images"}

\* A request: its position, its target issue, the number of committed posts
\* of that issue when the request arrived (n0), and its response code
IdlePost == [pc |-> "idle", kind |-> "", issue |-> 0, n0 |-> 0, res |-> 0]

\* Quota test on the count read by count_posts_by_issue
CapacityReachedStrict(current_post_count) == current_post_count > MAX_POSTS_PER_ISSUE

CapacityReached(current_post_count) == current_post_count >= MAX_POSTS_PER_ISSUE

\* Steps 1-2: the caller is a member of group g; its current issue, or 404
PostBegin(r, kind, g) ==
    /\ preq[r].pc = "idle"
    /\ LET current_issue == get_current_issue(g)
       IN preq' = [preq EXCEPT ![r] =
                     IF current_issue = 0
                       THEN [IdlePost EXCEPT !.kind = kind, !.res = 404]
                       ELSE [IdlePost EXCEPT !.pc = "count", !.kind = kind,
                                             !.issue = current_issue,
                                             !.n0 = posts[current_issue]]]
    /\ UNCHANGED <<agg, render, calc, today, issues, sweep, hist, resp, posts, books, queue, proc, store>>

\* Step 3: count the issue's posts; at the maximum the request ends with 400
PostCount(r) ==
    /\ preq[r].pc = "count"
    /\ LET current_post_count == posts[preq[r].issue]
       IN preq' = [preq EXCEPT ![r] =
                     IF CapacityReached(current_post_count)
                       THEN [@ EXCEPT !.pc = "idle", !.res = 400]
                       ELSE [@ EXCEPT !.pc = "insert"]]
    /\ UNCHANGED <<agg, render, calc, today, issues, sweep, hist, resp, posts, books, queue, proc, store>>

\* Steps 4-6: post_crud.create_post adds the row to the session.
\* create_post_with_images commits it and answers 200.  create_post never
\* commits: it builds PostResponse from the unflushed row, whose created_at
\* is None, so the response fails validation and the handler answers 500;
\* the session is closed with the row still pending.
PostInsert(r) ==
    /\ preq[r].pc = "insert"
    /\ IF preq[r].kind = "create_post_with_images"
         THEN /\ posts' = [posts EXCEPT ![preq[r].issue] = @ + 1]
              /\ preq' = [preq EXCEPT ![r].pc = "idle", ![r].res = 200]
         ELSE /\ posts' = posts
              /\ preq' = [preq EXCEPT ![r].pc = "idle", ![r].res = 500]
    /\ UNCHANGED <<agg, render, calc, today, issues, sweep, hist, resp, books, queue, proc, store>>

\* DELETE /posts/{post_id} by the author of a committed post: the handler
\* ends in post_crud.delete, a method the CRUD classes do not define
\* (BaseCRUD has remove), so it answers 500 and the post stays
delete_post(r, i) ==
    /\ preq[r].pc = "idle"
    /\ i \in IssueIds
    /\ posts[i] > 0
    /\ preq' = [preq EXCEPT ![r] = [IdlePost EXCEPT !.kind = "delete_post", !.issue = i,
                                                     !.n0 = posts[i], !.res = 500]]
    /\ UNCHANGED <<agg, render, calc, today, issues, sweep, hist, resp, posts, books, queue, proc, store>>

(***************************************************************************)
(* Book production: services/pdf_service.py, workers/pdf_worker.py,        *)
(* api/routes/admin.py, api/routes/books.py                                *)
(***************************************************************************)
MaxQueue == 2         \* jobs the queue may hold
MaxJobs == 2          \* jobs the worker takes from the queue
MaxRenders == 2       \* renders started

ProductionStatus == {"PENDING", "IN_PROGRESS", "COMPLETED", "FAILED"}

\* schemas.book.ProductionStatusEnum, the values BookStatusUpdate accepts
AdminStatusInputs == {"PENDING", "IN_PROGRESS", "COMPLETED"}

Procs == {"w", "h"}   \* the queue worker task and a request handler task

BookIds == 1..Len(books)

BooksOf(i) == {b \in BookIds : books[b].issue_id = i}

\* BookCRUD.get_by_issue_id: first row of the issue, 0 for None
get_by_issue_id(i) == IF BooksOf(i) = {} THEN 0 ELSE CHOOSE b \in BooksOf(i) : \A c \in BooksOf(i) : b <= c

\* A row of the books table
BookRow(i, st, url, at) ==
    [issue_id |-> i, production_status |-> st, pdf_url |-> url, produced_at |-> at]

\* BaseCRUD.create as the pipeline uses it: db.add only; neither
\* generate_issue_pdf nor any of its callers commits afterwards, so the
\* pending row is dropped when the session closes.  The variant is a create
\* whose insert reaches the table.
BookCreateCommitted(tbl, book_data) == Append(tbl, book_data)

BookCreate(tbl, book_data) == tbl

\* _generate_single_pdf's test of the book found (None: b = 0); the variant
\* never recognises a finished book
IsCompletedNever(b) == FALSE

IsCompleted(b) == b # 0 /\ books[b].production_status = "COMPLETED"

IdleProc == [pc |-> "idle", kind |-> "", issue |-> 0, book |-> 0, url |-> 0, res |-> ""]

\* PDFWorker.add_to_queue
add_to_queue(q, issue_id) == Append(q, issue_id)

AddToQueue(i) ==
    /\ i \in IssueIds
    /\ Len(queue) < MaxQueue
    /\ queue' = add_to_queue(queue, i)
    /\ UNCHANGED <<agg, render, calc, today, issues, sweep, hist, resp, posts, preq, books, proc, store>>

\* issue_crud.get_issues_without_books: CLOSED issues lacking a COMPLETED
\* book, in creation order
RECURSIVE IssuesWithoutBooksFrom(_)
IssuesWithoutBooksFrom(i) ==
    IF i > Len(issues) THEN <<>>
    ELSE (IF issues[i].status = "CLOSED"
             /\ \A b \in BooksOf(i) : books[b].production_status # "COMPLETED"
            THEN <<i>> ELSE <<>>) \o IssuesWithoutBooksFrom(i + 1)

get_issues_without_books == IssuesWithoutBooksFrom(1)

RECURSIVE AddAll(_, _)
AddAll(q, ids) == IF ids = <<>> THEN q ELSE AddAll(add_to_queue(q, Head(ids)), Tail(ids))

\* PDFWorker.check_pending_issues
check_pending_issues ==
    /\ get_issues_without_books # <<>>
    /\ Len(queue) + Len(get_issues_without_books) <= MaxQueue
    /\ queue' = AddAll(queue, get_issues_without_books)
    /\ UNCHANGED <<agg, render, calc, today, issues, sweep, hist, resp, posts, preq, books, proc, store>>

\* process_pdf_generation: take the next job
Dequeue ==
    /\ proc["w"].pc = "idle"
    /\ queue # <<>>
    /\ store.jobs < MaxJobs
    /\ proc' = [proc EXCEPT !["w"] = [IdleProc EXCEPT !.pc = "check", !.kind = "worker",
                                                       !.issue = Head(queue)]]
    /\ queue' = Tail(queue)
    /\ store' = [store EXCEPT !.jobs = @ + 1]
    /\ UNCHANGED <<agg, render, calc, today, issues, sweep, hist, resp, posts, preq, books>>

\* _generate_single_pdf, lines 50-59: a job whose book is COMPLETED returns
CheckJob ==
    /\ proc["w"].pc = "check"
    /\ LET existing_book == get_by_issue_id(proc["w"].issue)
       IN /\ proc' = [proc EXCEPT !["w"] =
                     IF IsCompleted(existing_book)
                       THEN [@ EXCEPT !.pc = "idle", !.res = "skipped"]
                       ELSE [@ EXCEPT !.pc = "gen"]]
          /\ store' = [store EXCEPT !.skipped = IF IsCompleted(existing_book) THEN @ + 1 ELSE @]
    /\ UNCHANGED <<agg, render, calc, today, issues, sweep, hist, resp, posts, preq, books, queue>>

\* POST /admin/books/generate/{issue_id}
generate_book_pdf(issue_id) ==
    /\ proc["h"].pc = "idle"
    /\ issue_id \in IssueIds
    /\ proc' = [proc EXCEPT !["h"] = [IdleProc EXCEPT !.pc = "gen", !.kind = "generate",
                                                       !.issue = issue_id]]
    /\ UNCHANGED <<agg, render, calc, today, issues, sweep, hist, resp, posts, preq, books, queue, store>>

\* POST /books/{book_id}/regenerate by the group leader, then
\* PDFGenerationService.regenerate_pdf: the book's issue goes through
\* generate_issue_pdf
regenerate_book_pdf(book_id) ==
    /\ proc["h"].pc = "idle"
    /\ book_id \in BookIds
    /\ proc' = [proc EXCEPT !["h"] = [IdleProc EXCEPT !.pc = "gen", !.kind = "regenerate",
                                                       !.issue = books[book_id].issue_id]]
    /\ UNCHANGED <<agg, render, calc, today, issues, sweep, hist, resp, posts, preq, books, queue, store>>

\* BaseCRUD.update as update_book_status uses it: setattr on the loaded
\* object, no commit here or in the handler, so the table is as before once
\* the session closes.  The variant is an update that reaches the table.
BookUpdateCommitted(tbl, book_id, production_status) ==
    [tbl EXCEPT ![book_id].production_status = production_status]

BookUpdate(tbl, book_id, production_status) == tbl

\* PUT /admin/books/{book_id}/status: BaseCRUD.update assigns the fields on
\* the loaded object and leaves the transaction to the caller; the handler
\* returns without committing, so the table keeps the row as it was
update_book_status(book_id, production_status) ==
    /\ proc["h"].pc = "idle"
    /\ book_id \in BookIds
    /\ proc' = [proc EXCEPT !["h"] = [IdleProc EXCEPT !.kind = "update_book_status",
                                                       !.issue = books[book_id].issue_id,
                                                       !.book = book_id,
                                                       !.res = production_status]]
    /\ books' = BookUpdate(books, book_id, production_status)
    /\ UNCHANGED <<agg, render, calc, today, issues, sweep, hist, resp, posts, preq, queue, store>>

\* BookCRUD.update_production_status, committed: the status given, the
\* pdf_url if one is given (0 for None), produced_at when the status is
\* COMPLETED
update_production_status(tbl, book_id, status, pdf_url, now) ==
    [tbl EXCEPT ![book_id] =
        [@ EXCEPT !.production_status = status,
                  !.pdf_url = IF pdf_url # 0 THEN pdf_url ELSE @,
                  !.produced_at = IF status = "COMPLETED" THEN now ELSE @]]

\* The book CRUD object called directly
BookStoreUpdateStatus(book_id, status, pdf_url) ==
    /\ resp.n < MaxCalls
    /\ book_id \in BookIds
    /\ books' = update_production_status(books, book_id, status, pdf_url, resp.n + 1)
    /\ resp' = [op |-> "update_production_status", id |-> book_id, out |-> "returned",
                n |-> resp.n + 1]
    /\ UNCHANGED <<agg, render, calc, today, issues, sweep, hist, posts, preq, queue, proc, store>>

\* generate_issue_pdf's test of the posts read for the issue; the variant
\* lets an empty list through
NoPostsNever(n) == FALSE

NoPosts(n) == n = 0

\* generate_issue_pdf, steps 1-6: posts of the issue (none: ValueError),
\* the group's recipient (none: ValueError), post data and document rendering
\* (render_ok: steps 4 and 5 end without an exception), upload to
\* the artifact store; nothing is awaited between the posts read and the
\* upload.  An exception leaves the function; the books table is not
\* touched on that path.
GenRender(p, has_recipient, render_ok, upload_ok) ==
    /\ proc[p].pc = "gen"
    /\ store.renders < MaxRenders
    /\ IF NoPosts(posts[proc[p].issue]) \/ ~has_recipient
         THEN /\ proc' = [proc EXCEPT ![p].pc = "idle", ![p].res = "ValueError"]
              /\ store' = store
       ELSE IF ~render_ok
         THEN /\ proc' = [proc EXCEPT ![p].pc = "idle", ![p].res = "RenderError"]
              /\ store' = [store EXCEPT !.renders = @ + 1]
       ELSE IF ~upload_ok
         THEN /\ proc' = [proc EXCEPT ![p].pc = "idle", ![p].res = "UploadError"]
              /\ store' = [store EXCEPT !.renders = @ + 1]
       ELSE /\ proc' = [proc EXCEPT ![p].pc = "lookup", ![p].url = store.uploads + 1]
            /\ store' = [store EXCEPT !.renders = @ + 1, !.uploads = @ + 1]
    /\ UNCHANGED <<agg, render, calc, today, issues, sweep, hist, resp, posts, preq, books, queue>>

\* generate_issue_pdf, step 7: look the book up
GenLookup(p) ==
    /\ proc[p].pc = "lookup"
    /\ proc' = [proc EXCEPT ![p].pc = "write", ![p].book = get_by_issue_id(proc[p].issue)]
    /\ UNCHANGED <<agg, render, calc, today, issues, sweep, hist, resp, posts, preq, books, queue, store>>

\* generate_issue_pdf, step 7: update and commit the row found, or create one
GenWrite(p) ==
    /\ proc[p].pc = "write"
    /\ books' = IF proc[p].book # 0
                  THEN [books EXCEPT ![proc[p].book] =
                           [@ EXCEPT !.pdf_url = proc[p].url,
                                     !.production_status = "COMPLETED",
                                     !.produced_at = proc[p].url]]
                  ELSE BookCreate(books, BookRow(proc[p].issue, "COMPLETED",
                                                 proc[p].url, proc[p].url))
    /\ proc' = [proc EXCEPT ![p].pc = "idle", ![p].res = "ok"]
    /\ UNCHANGED <<agg, render, calc, today, issues, sweep, hist, resp, posts, preq, queue, store>>

(***************************************************************************)
(* Document generator: utils/pdf_utils.py                                  *)
(***************************************************************************)
MaxImages == 4        \* image URLs of a post
MaxDocPosts == 2      \* posts of a document

\* A post given to generate_pdf: k image URLs, numbered 1..k, and the set ok
\* of those _download_and_resize_image returns data for (it returns None
\* when the fetch or the decoding fails)
PostInputs == UNION {[k : {k}, ok : SUBSET (1..k)] : k \in 0..MaxImages}

NoOut == [err |-> "unset", sections |-> <<>>]

RenderIdle == [posts |-> <<>>, out |-> NoOut]

\* The loop of _create_image_layout: the first four URLs, those that give
\* data, in order
RECURSIVE ProcessedFrom(_, _, _)
ProcessedFrom(i, k, ok) ==
    IF i > k \/ i > 4 THEN <<>>
    ELSE (IF i \in ok THEN <<i>> ELSE <<>>) \o ProcessedFrom(i + 1, k, ok)

\* Image(data, ...): None (0) is not an image source
ImageOf(processed_images, j) ==
    IF j > Len(processed_images) THEN "IndexError"
    ELSE IF processed_images[j] = 0 THEN "TypeError"
    ELSE ""

FirstErr(errs) ==
    IF \E j \in 1..Len(errs) : errs[j] # ""
      THEN errs[CHOOSE j \in 1..Len(errs) : errs[j] # "" /\ \A h \in 1..(j - 1) : errs[h] = ""]
      ELSE ""

\* _create_image_layout: the layout is chosen by the number of URLs, the
\* cells are filled from the images processed; the result is the error
\* raised, or the cells with 0 for an empty one
_create_image_layout(k, ok) ==
    LET image_count == k
        loaded == ProcessedFrom(1, k, ok)
    IN IF loaded = <<>> THEN [err |-> "", cells |-> <<>>]
       ELSE IF image_count = 1 THEN [err |-> "", cells |-> <<loaded[1]>>]
       ELSE IF image_count = 2
         THEN LET e == FirstErr(<<ImageOf(loaded, 1), ImageOf(loaded, 2)>>)
              IN IF e # "" THEN [err |-> e, cells |-> <<>>]
                 ELSE [err |-> "", cells |-> <<loaded[1], loaded[2]>>]
       ELSE LET processed_images == IF image_count = 3 THEN Append(loaded, 0) ELSE loaded
                third == IF 3 > Len(processed_images) THEN "IndexError" ELSE ""
                e == FirstErr(<<ImageOf(processed_images, 1), ImageOf(processed_images, 2), third>>)
            IN IF e # "" THEN [err |-> e, cells |-> <<>>]
               ELSE [err |-> "", cells |->
                       <<processed_images[1], processed_images[2], processed_images[3],
                         IF Len(processed_images) > 3 THEN processed_images[4] ELSE 0>>]

\* generate_pdf: one page per post, in order; an exception of a page leaves
\* the function
RECURSIVE PagesFrom(_, _)
PagesFrom(post_list, i) ==
    IF i > Len(post_list) THEN [err |-> "", sections |-> <<>>]
    ELSE LET layout == IF post_list[i].k > 0
                         THEN _create_image_layout(post_list[i].k, post_list[i].ok)
                         ELSE [err |-> "", cells |-> <<>>]
             rest == PagesFrom(post_list, i + 1)
         IN IF layout.err # "" THEN [err |-> layout.err, sections |-> <<>>]
            ELSE IF rest.err # "" THEN rest
            ELSE [err |-> "", sections |-> <<[text |-> i, cells |-> layout.cells]>> \o rest.sections]

generate_pdf ==
    /\ render.out = NoOut
    /\ render' = [render EXCEPT !.out = PagesFrom(render.posts, 1)]
    /\ UNCHANGED <<agg, calc, today, issues, sweep, hist, resp, posts, preq, books, queue, proc, store>>

(***************************************************************************)
(* Deadline calculator applied to a reference date and a policy            *)
(***************************************************************************)
NoRes == [err |-> "unset", val |-> 0]

CalcIdle == [d |-> Day0, p |-> "SECOND_SUNDAY", via |-> "none", res |-> NoRes, again |-> NoRes]

\* week_number the service passes for a policy (lines 21-24)
WeekNumber(p) == IF p = "SECOND_SUNDAY" THEN 2 ELSE 4

NextDeadlineVia(via, d, p) ==
    IF via = "service" THEN calculate_next_deadline(p, d)
    ELSE IF via = "data_utils" THEN data_utils_calculate_next_deadline(d, p)
    ELSE Date(_get_nth_sunday_of_month(d, WeekNumber(p)))

CalcService ==
    /\ calc.via = "none"
    /\ calc' = [calc EXCEPT !.via = "service", !.res = NextDeadlineVia("service", calc.d, calc.p)]
    /\ UNCHANGED <<agg, render, today, issues, sweep, hist, resp, posts, preq, books, queue, proc, store>>

CalcDataUtils ==
    /\ calc.via = "none"
    /\ calc' = [calc EXCEPT !.via = "data_utils", !.res = NextDeadlineVia("data_utils", calc.d, calc.p)]
    /\ UNCHANGED <<agg, render, today, issues, sweep, hist, resp, posts, preq, books, queue, proc, store>>

CalcNth ==
    /\ calc.via = "none"
    /\ calc' = [calc EXCEPT !.via = "nth", !.res = NextDeadlineVia("nth", calc.d, calc.p)]
    /\ UNCHANGED <<agg, render, today, issues, sweep, hist, resp, posts, preq, books, queue, proc, store>>

\* Re-computation from the previous output plus one day
CalcAgain ==
    /\ calc.via # "none"
    /\ calc.res.err = ""
    /\ calc.again = NoRes
    /\ calc' = [calc EXCEPT !.again = NextDeadlineVia(calc.via, calc.res.val + 1, calc.p)]
    /\ UNCHANGED <<agg, render, today, issues, sweep, hist, resp, posts, preq, books, queue, proc, store>>

(***************************************************************************)
(* crud/post_crud.py get_posts_by_issue; services/pdf_service.py, steps 2  *)
(* and 4 of generate_issue_pdf                                             *)
(***************************************************************************)
MaxAggPosts == 3      \* posts of the issue
MaxStamps == 2        \* distinct created_at values
MaxAggRuns == 2       \* reads of the same issue

PostIds == 1..MaxAggPosts

\* A row of posts as the pipeline uses it: created_at, and whether the
\* author has a FamilyMember row in the issue's group.  author_id is a
\* non-null foreign key and User.name is not nullable.
PostRows == [created_at : 1..MaxStamps, member : BOOLEAN]

PostTables == UNION {[ids -> PostRows] : ids \in SUBSET PostIds}

\* models/family.py: the attributes of a FamilyMember instance
FamilyMemberAttrs ==
    {"id", "created_at", "updated_at", "group_id", "user_id", "recipient_id",
     "member_relationship", "role", "joined_at", "group", "user", "recipient"}

\* Attribute access <member>.<name>: the attribute, or AttributeError
FamilyMemberAttr(name) ==
    IF name \in FamilyMemberAttrs THEN [err |-> "", val |-> name]
    ELSE [err |-> "AttributeError", val |-> ""]

\* The literal generate_issue_pdf uses when the author has no member row
DefaultRelationship == "family"

NoData == [err |-> "unset", rows |-> <<>>]

AggIdle == [table |-> <<>>, runs |-> <<>>, data |-> NoData]

Orderings(S) ==
    {s \in [1..Cardinality(S) -> S] :
        \A a, b \in 1..Cardinality(S) : a # b => s[a] # s[b]}

\* ORDER BY created_at DESC: rows of equal created_at come in any order
DescByCreatedAt(table) ==
    {s \in Orderings(DOMAIN table) :
        \A a, b \in 1..Len(s) : a < b => table[s[a]].created_at >= table[s[b]].created_at}

\* OFFSET skip LIMIT limit
Slice(s, skip, limit) ==
    SubSeq(s, skip + 1, IF Len(s) < skip + limit THEN Len(s) ELSE skip + limit)

\* The lists the query of get_posts_by_issue can return
get_posts_by_issue(table, skip, limit) ==
    {Slice(s, skip, limit) : s \in DescByCreatedAt(table)}

\* generate_issue_pdf, step 2: post_crud.get_posts_by_issue(db, issue_id)
\* with the default skip and limit
AggregatePosts ==
    /\ Len(agg.runs) < MaxAggRuns
    /\ agg.data = NoData
    /\ \E result \in get_posts_by_issue(agg.table, 0, 20) :
          agg' = [agg EXCEPT !.runs = Append(@, result)]
    /\ UNCHANGED <<render, calc, today, issues, sweep, hist, resp, posts, preq, books, queue, proc, store>>

\* author_member.relationship.value if author_member else the default
AuthorRelationship(row) ==
    IF row.member THEN FamilyMemberAttr("relationship")
    ELSE [err |-> "", val |-> DefaultRelationship]

\* generate_issue_pdf, step 4: the loop that builds post_data
RECURSIVE PostDataFrom(_, _, _)
PostDataFrom(table, post_list, i) ==
    IF i > Len(post_list) THEN [err |-> "", rows |-> <<>>]
    ELSE LET label == AuthorRelationship(table[post_list[i]])
             rest == PostDataFrom(table, post_list, i + 1)
         IN IF label.err # "" THEN [err |-> label.err, rows |-> <<>>]
            ELSE IF rest.err # "" THEN rest
            ELSE [err |-> "", rows |-> <<[post |-> post_list[i], author_relationship |-> label.val]>> \o rest.rows]

\* generate_issue_pdf, steps 2-4 after the read: no posts is a ValueError,
\* otherwise the post data is built
PreparePostData ==
    /\ Len(agg.runs) >= 1
    /\ agg.data = NoData
    /\ LET post_list == agg.runs[Len(agg.runs)]
       IN agg' = [agg EXCEPT !.data = IF NoPosts(Len(post_list))
                                        THEN [err |-> "ValueError", rows |-> <<>>]
                                        ELSE PostDataFrom(agg.table, post_list, 1)]
    /\ UNCHANGED <<render, calc, today, issues, sweep, hist, resp, posts, preq, books, queue, proc, store>>

(***************************************************************************)
(* Initial states and specifications                                       *)
(***************************************************************************)
IssuesIdle ==
    /\ today = Day0
    /\ issues = <<>>
    /\ sweep = [s \in Sweepers |-> IdleSweep]
    /\ hist = [closes |-> <<>>, succ |-> <<>>, runs |-> [s \in Sweepers |-> <<>>]]
    /\ resp = 0

PostsIdle ==
    /\ posts = <<>>
    /\ preq = [r \in PostReqs |-> IdlePost]

BooksIdle ==
    /\ books = <<>>
    /\ queue = <<>>
    /\ proc = [p \in Procs |-> IdleProc]
    /\ store = [renders |-> 0, uploads |-> 0, jobs |-> 0, skipped |-> 0]
    /\ render = RenderIdle
    /\ agg = AggIdle

IssueRow(g, n, d, st) ==
    [group_id |-> g, issue_number |-> n, deadline_date |-> d, status |-> st, closed_at |-> 0]

\* Issue lifecycle: endpoints, clock, two sweep tasks
Init ==
    /\ calc = CalcIdle
    /\ IssuesIdle
    /\ PostsIdle
    /\ BooksIdle

Next ==
    \/ \E role \in Roles, g \in Groups, n \in IssueNumbers, d \in DeadlineInputs :
          create_new_issue(role, [group_id |-> g, issue_number |-> n, deadline_date |-> d])
    \/ \E m \in BOOLEAN : setup_family_group(m)
    \/ AdvanceDay
    \/ \E s \in Sweepers : StartSweep(s)
    \/ \E s \in Sweepers : GetCurrent(s)
    \/ \E s \in Sweepers : CloseAndNext(s)

Spec == Init /\ [][Next]_vars

\* Deadline calculator
InitCalc ==
    /\ calc \in [d : Day0..(Day0 + MaxRefDay), p : DeadlineType,
                 via : {"none"}, res : {NoRes}, again : {NoRes}]
    /\ IssuesIdle
    /\ PostsIdle
    /\ BooksIdle

NextCalc == CalcService \/ CalcDataUtils \/ CalcNth \/ CalcAgain

SpecCalc == InitCalc /\ [][NextCalc]_vars

\* Document generator on a list of posts
InitRender ==
    /\ agg = AggIdle
    /\ render \in {[posts |-> ps, out |-> NoOut] :
                     ps \in UNION {[1..n -> PostInputs] : n \in 1..MaxDocPosts}}
    /\ calc = CalcIdle
    /\ IssuesIdle
    /\ PostsIdle
    /\ books = <<>>
    /\ queue = <<>>
    /\ proc = [p \in Procs |-> IdleProc]
    /\ store = [renders |-> 0, uploads |-> 0, jobs |-> 0, skipped |-> 0]

NextRender == generate_pdf

SpecRender == InitRender /\ [][NextRender]_vars

\* Aggregation of one issue's posts, read up to MaxAggRuns times
InitAggregate ==
    /\ agg \in {[table |-> t, runs |-> <<>>, data |-> NoData] : t \in PostTables}
    /\ render = RenderIdle
    /\ calc = CalcIdle
    /\ IssuesIdle
    /\ PostsIdle
    /\ books = <<>>
    /\ queue = <<>>
    /\ proc = [p \in Procs |-> IdleProc]
    /\ store = [renders |-> 0, uploads |-> 0, jobs |-> 0, skipped |-> 0]

NextAggregate == AggregatePosts \/ PreparePostData

SpecAggregate == InitAggregate /\ [][NextAggregate]_vars

\* The issue CRUD object on an empty table
InitStore ==
    /\ calc = CalcIdle
    /\ today = Day0
    /\ issues = <<>>
    /\ sweep = [s \in Sweepers |-> IdleSweep]
    /\ hist = [closes |-> <<>>, succ |-> <<>>, runs |-> [s \in Sweepers |-> <<>>]]
    /\ resp = NoCall
    /\ PostsIdle
    /\ BooksIdle

NextStore ==
    \/ \E g \in Groups, n \in IssueNumbers, d \in DeadlineInputs :
          StoreCreate([group_id |-> g, issue_number |-> n, deadline_date |-> d])
    \/ \E id \in 1..MaxIssues : StoreCloseIssue(id)
    \/ \E id \in IssueIds, value \in IssueStatus : StoreUpdate(id, value)

SpecStore == InitStore /\ [][NextStore]_vars

\* Post creation on the open issue of group g1 (g2 has none)
InitPosts ==
    /\ calc = CalcIdle
    /\ today = Day0
    /\ issues = <<IssueRow("g1", 1, Day0, "OPEN")>>
    /\ sweep = [s \in Sweepers |-> IdleSweep]
    /\ hist = [closes |-> <<0>>, succ |-> <<0>>, runs |-> [s \in Sweepers |-> <<>>]]
    /\ resp = 0
    /\ posts = <<0>>
    /\ preq = [r \in PostReqs |-> IdlePost]
    /\ BooksIdle

NextPosts ==
    \/ \E r \in PostReqs, kind \in PostKinds, g \in Groups : PostBegin(r, kind, g)
    \/ \E r \in PostReqs : PostCount(r)
    \/ \E r \in PostReqs : PostInsert(r)
    \/ \E r \in PostReqs, i \in IssueIds : delete_post(r, i)

SpecPosts == InitPosts /\ [][NextPosts]_vars

\* Post requests while the clock runs and the deadline sweep works; the open
\* issue of g1 already holds all but two of the posts it may take
InitPostsSweep ==
    /\ calc = CalcIdle
    /\ today = Day0
    /\ issues = <<IssueRow("g1", 1, Day0, "OPEN")>>
    /\ sweep = [s \in Sweepers |-> IdleSweep]
    /\ hist = [closes |-> <<0>>, succ |-> <<0>>, runs |-> [s \in Sweepers |-> <<>>]]
    /\ resp = 0
    /\ posts = <<MAX_POSTS_PER_ISSUE - 2>>
    /\ preq = [r \in PostReqs |-> IdlePost]
    /\ BooksIdle

NextPostsSweep ==
    \/ NextPosts
    \/ AdvanceDay
    \/ \E s \in Sweepers : StartSweep(s)
    \/ \E s \in Sweepers : GetCurrent(s)
    \/ \E s \in Sweepers : CloseAndNext(s)

SpecPostsSweep == InitPostsSweep /\ [][NextPostsSweep]_vars

\* Book production over three issues of group g1: a closed one with a post,
\* a closed one without posts, and the open one.  No code path commits an
\* insert into the books table, so its rows come with the database: at most
\* one per issue (Book.issue_id is unique), a COMPLETED one with its locator
\* and timestamp.
SeedBook(i, st) ==
    IF st = "COMPLETED" THEN BookRow(i, st, 1, 1) ELSE BookRow(i, st, 0, 0)

InitBooks ==
    /\ calc = CalcIdle
    /\ today = Day0 + 1
    /\ issues = <<IssueRow("g1", 1, Day0, "CLOSED"), IssueRow("g1", 2, Day0, "CLOSED"),
                  IssueRow("g1", 3, Day0 + 1, "OPEN")>>
    /\ sweep = [s \in Sweepers |-> IdleSweep]
    /\ hist = [closes |-> <<1, 1, 0>>, succ |-> <<0, 0, 0>>, runs |-> [s \in Sweepers |-> <<>>]]
    /\ resp = 0
    /\ posts = <<1, 0, 1>>
    /\ preq = [r \in PostReqs |-> IdlePost]
    /\ books \in {<<>>} \cup {<<SeedBook(i, st)>> : i \in {1, 2}, st \in ProductionStatus}
    /\ queue = <<>>
    /\ proc = [p \in Procs |-> IdleProc]
    /\ store = [renders |-> 0, uploads |-> 1, jobs |-> 0, skipped |-> 0]
    /\ render = RenderIdle
    /\ agg = AggIdle

NextBooks ==
    \/ \E i \in IssueIds : AddToQueue(i)
    \/ check_pending_issues
    \/ Dequeue
    \/ CheckJob
    \/ \E i \in IssueIds : generate_book_pdf(i)
    \/ \E b \in BookIds : regenerate_book_pdf(b)
    \/ \E b \in BookIds, st \in AdminStatusInputs : update_book_status(b, st)
    \/ \E p \in Procs, has_recipient \in BOOLEAN, render_ok \in BOOLEAN, upload_ok \in BOOLEAN :
          GenRender(p, has_recipient, render_ok, upload_ok)
    \/ \E p \in Procs : GenLookup(p)
    \/ \E p \in Procs : GenWrite(p)

SpecBooks == InitBooks /\ [][NextBooks]_vars

\* Restart of the server process: the asyncio queue, the tasks in flight and
\* the process's counters are gone, the tables stay
Restart ==
    /\ queue' = <<>>
    /\ proc' = [p \in Procs |-> IdleProc]
    /\ store' = [renders |-> 0, uploads |-> 1, jobs |-> 0, skipped |-> 0]
    /\ store' # store \/ queue' # queue \/ proc' # proc
    /\ UNCHANGED <<agg, render, calc, today, issues, sweep, hist, resp, posts, preq, books>>

\* One step of the job the worker task is running
WorkerStep ==
    \/ CheckJob
    \/ \E has_recipient \in BOOLEAN, render_ok \in BOOLEAN, upload_ok \in BOOLEAN :
          GenRender("w", has_recipient, render_ok, upload_ok)
    \/ GenLookup("w")
    \/ GenWrite("w")

\* start_worker: the periodic check and the queue worker run as two tasks
\* for as long as the process lives; a restart starts both again
NextWorker ==
    \/ check_pending_issues
    \/ Dequeue
    \/ WorkerStep
    \/ Restart

\* Both tasks keep being scheduled, and a job that is started again and
\* again gets through each of its steps; restarts recur, so that the
\* counters of one process lifetime never end a run
SpecWorker ==
    /\ InitBooks
    /\ [][NextWorker]_vars
    /\ WF_vars(check_pending_issues)
    /\ SF_vars(Dequeue)
    /\ SF_vars(CheckJob)
    /\ SF_vars(\E has_recipient \in BOOLEAN, render_ok \in BOOLEAN, upload_ok \in BOOLEAN :
                  GenRender("w", has_recipient, render_ok, upload_ok))
    /\ SF_vars(GenLookup("w"))
    /\ SF_vars(GenWrite("w"))
    /\ WF_vars(Restart)

\* The book CRUD object called directly on the rows the database holds
InitBookStore ==
    /\ calc = CalcIdle
    /\ today = Day0 + 1
    /\ issues = <<IssueRow("g1", 1, Day0, "CLOSED"), IssueRow("g1", 2, Day0, "CLOSED"),
                  IssueRow("g1", 3, Day0 + 1, "OPEN")>>
    /\ sweep = [s \in Sweepers |-> IdleSweep]
    /\ hist = [closes |-> <<1, 1, 0>>, succ |-> <<0, 0, 0>>, runs |-> [s \in Sweepers |-> <<>>]]
    /\ resp = NoCall
    /\ posts = <<1, 0, 1>>
    /\ preq = [r \in PostReqs |-> IdlePost]
    /\ books \in {<<SeedBook(i, st)>> : i \in {1, 2}, st \in ProductionStatus}
    /\ queue = <<>>
    /\ proc = [p \in Procs |-> IdleProc]
    /\ store = [renders |-> 0, uploads |-> 1, jobs |-> 0, skipped |-> 0]
    /\ render = RenderIdle
    /\ agg = AggIdle

NextBookStore ==
    \E b \in BookIds, st \in ProductionStatus, url \in {0, 2} : BookStoreUpdateStatus(b, st, url)

SpecBookStore == InitBookStore /\ [][NextBookStore]_vars

(***************************************************************************)
(* Properties                                                              *)
(***************************************************************************)
\* x is the n-th Sunday of its calendar month
IsNthSunday(x, n) == Weekday(x) = 6 /\ (DayOf(x) - 1) \div 7 = n - 1

EarliestNthSundayAfter(d, n) ==
    CHOOSE x \in (d + 1)..(d + 70) :
        IsNthSunday(x, n) /\ \A y \in (d + 1)..(x - 1) : ~IsNthSunday(y, n)

MonthIndex(x) == YearOf(x) * 12 + MonthOf(x)

\* C6: for every reference date d and policy p, the next deadline computed by
\* the deadline calculators that take a policy is a date strictly after d,
\* a Sunday, and the earliest n-th Sunday of a month after d
C6_NextDeadline ==
    calc.via \in {"service", "data_utils"} =>
        /\ calc.res.err = ""
        /\ calc.res.val > calc.d
        /\ Weekday(calc.res.val) = 6
        /\ calc.res.val = EarliestNthSundayAfter(calc.d, WeekNumber(calc.p))

InFlight(i) == {s \in Sweepers : sweep[s].pc = "close" /\ sweep[s].cur = i}

\* C1: every group has at most one OPEN issue
C1_AtMostOneOpen == \A g \in Groups : Cardinality(OpenIssues(g)) <= 1

\* Close triggers that have taken issue i as their target so far: the
\* close_issue calls made on it and the sweeps about to make one
Triggers(i) == hist.closes[i] + Cardinality(InFlight(i))

\* C3: when two close/open-next triggers took the same issue, exactly one of
\* them writes OPEN -> CLOSED and exactly one successor issue is created
C3_RaceExactlyOne ==
    \A i \in IssueIds :
        (Triggers(i) >= 2 /\ InFlight(i) = {}) =>
            (hist.closes[i] = 1 /\ hist.succ[i] = 1)

\* C4: when the sweep's step for a group ends, it does not leave the expired
\* issue CLOSED with no OPEN issue in the group
C4_CloseOpenUnit ==
    [][\A s \in Sweepers :
          (sweep[s].pc = "close" /\ sweep'[s].pc # "close") =>
              LET i == sweep[s].cur
              IN ~(/\ issues'[i].status = "CLOSED"
                   /\ \A j \in 1..Len(issues') :
                         ~(issues'[j].group_id = issues[i].group_id /\ issues'[j].status = "OPEN"))]_vars

\* Two runs of one sweep task on the same day, and nothing else has written
\* an issue since the first run began
InSuccession(r) ==
    /\ Len(r) >= 2
    /\ r[1].day = r[2].day /\ today = r[1].day
    /\ Len(issues) = r[1].n0 + r[1].created + r[2].created
    /\ \A i \in r[1].closed \cup r[2].closed :
          hist.closes[i] = (IF i \in r[1].closed THEN 1 ELSE 0)
                           + (IF i \in r[2].closed THEN 1 ELSE 0)

\* C5: after two sweep runs in succession, the second run wrote nothing and
\* logged no error, and every issue the first run closed is CLOSED with
\* exactly one successor created, which is OPEN
C5_SecondSweepNoOp ==
    \A s \in Sweepers :
        LET r == hist.runs[s]
        IN InSuccession(r) =>
              /\ r[2].closed = {} /\ r[2].created = 0 /\ r[2].errs = 0
              /\ \A i \in r[1].closed :
                    /\ issues[i].status = "CLOSED"
                    /\ hist.succ[i] = 1
                    /\ \E j \in OpenIssues(issues[i].group_id) :
                          issues[j].issue_number = issues[i].issue_number + 1

\* C8: a post request that arrives at an OPEN issue already holding
\* MAX_POSTS_PER_ISSUE posts never changes the committed posts in any of its
\* steps, and it ends with the capacity error (400)
C8_CapacityRejected ==
    [][\A r \in PostReqs :
          (preq[r].pc \in {"count", "insert"} /\ preq[r].n0 >= MAX_POSTS_PER_ISSUE
             /\ preq'[r] # preq[r]) =>
              /\ posts' = posts
              /\ preq'[r].pc = "idle" => preq'[r].res = 400]_vars

C8_Witness ==
    \E r \in PostReqs :
        /\ preq[r].pc = "idle" /\ preq[r].kind \in PostKinds /\ preq[r].res = 400
        /\ preq[r].n0 = MAX_POSTS_PER_ISSUE
        /\ issues[preq[r].issue].status = "OPEN"
        /\ posts[preq[r].issue] = MAX_POSTS_PER_ISSUE

\* C2: every issue has at most one row in the books table
C2_AtMostOneBook == \A i \in IssueIds : Cardinality(BooksOf(i)) <= 1

\* The worker's job and a regenerate request ran through the pipeline for
\* the same issue and both finished
C2_Witness ==
    /\ proc["w"].pc = "idle" /\ proc["w"].res = "ok"
    /\ proc["h"].pc = "idle" /\ proc["h"].res = "ok" /\ proc["h"].kind = "regenerate"
    /\ proc["w"].issue = proc["h"].issue
    /\ Cardinality(BooksOf(proc["w"].issue)) = 1

\* C9: the worker's check of a job whose issue has a COMPLETED book ends the
\* job: the pipeline is not entered, nothing is rendered or uploaded and the
\* books table keeps every field
C9_ProcessCompletedNoOp ==
    [][(proc["w"].pc = "check" /\ proc'["w"] # proc["w"]
          /\ \E b \in BooksOf(proc["w"].issue) : books[b].production_status = "COMPLETED") =>
              /\ proc'["w"].pc = "idle"
              /\ books' = books
              /\ store'.renders = store.renders /\ store'.uploads = store.uploads]_vars

\* The second of two jobs taken one after the other was skipped at a
\* COMPLETED book
C9_Witness ==
    /\ store.skipped = 2 /\ Len(books) = 1
    /\ proc["w"].pc = "idle" /\ proc["w"].res = "skipped"
    /\ \E b \in BooksOf(proc["w"].issue) : books[b].production_status = "COMPLETED"
    /\ store.renders = 0

\* C10: no step puts on the queue an issue that has a COMPLETED or an
\* IN_PROGRESS book
C10_EnqueueIdempotent ==
    [][Len(queue') > Len(queue) =>
          \A k \in (Len(queue) + 1)..Len(queue') :
              \A b \in BooksOf(queue'[k]) :
                  books[b].production_status \notin {"COMPLETED", "IN_PROGRESS"}]_vars

\* C11: every change of an issue's status is OPEN -> CLOSED or
\* CLOSED -> PUBLISHED
C11_StatusOrder ==
    [][\A i \in IssueIds :
          issues'[i].status # issues[i].status =>
              <<issues[i].status, issues'[i].status>>
                  \in {<<"OPEN", "CLOSED">>, <<"CLOSED", "PUBLISHED">>}]_vars

\* C12: close_issue on a CLOSED or PUBLISHED issue raises and leaves the row
\* as it was; on an OPEN issue it writes CLOSED and sets closed_at
C12_CloseIssue ==
    [][(resp'.n = resp.n + 1 /\ resp'.op = "close_issue" /\ resp'.id \in IssueIds) =>
          LET i == resp'.id
          IN IF issues[i].status = "OPEN"
               THEN issues'[i].status = "CLOSED" /\ issues'[i].closed_at # 0
               ELSE resp'.out # "returned" /\ issues'[i] = issues[i]]_vars

\* C13: in every group the issue numbers are pairwise distinct and form
\* exactly 1..n
C13_SequentialNumbers ==
    \A g \in Groups :
        LET mine == {i \in IssueIds : issues[i].group_id = g}
        IN /\ \A i, j \in mine : issues[i].issue_number = issues[j].issue_number => i = j
           /\ {issues[i].issue_number : i \in mine} = 1..Cardinality(mine)

\* C14: the committed posts of an issue change only while the issue is OPEN
C14_ContentOnlyWhileOpen ==
    [][\A i \in IssueIds : posts'[i] # posts[i] => issues[i].status = "OPEN"]_vars

\* Changes of production_status the production state machine has
BookTransitions ==
    {<<"PENDING", "IN_PROGRESS">>, <<"IN_PROGRESS", "COMPLETED">>,
     <<"IN_PROGRESS", "FAILED">>, <<"FAILED", "IN_PROGRESS">>}

\* C15: every change of a book's production_status is a transition of the
\* state machine, COMPLETED -> IN_PROGRESS being made by a regenerate only
C15_BookStatusOrder ==
    [][\A b \in BookIds :
          books'[b].production_status # books[b].production_status =>
              \/ <<books[b].production_status, books'[b].production_status>> \in BookTransitions
              \/ /\ books[b].production_status = "COMPLETED"
                 /\ books'[b].production_status = "IN_PROGRESS"
                 /\ \E p \in Procs : proc[p].kind = "regenerate" /\ proc'[p] # proc[p]]_vars

\* C17: a COMPLETED book has its pdf_url and its produced_at set
C17_CompletedHasArtifact ==
    \A b \in BookIds :
        books[b].production_status = "COMPLETED" =>
            books[b].pdf_url # 0 /\ books[b].produced_at # 0

\* C16: when the worker's job ends in success, the books table holds a row
\* of the issue that is COMPLETED, with a produced_at and the locator the
\* upload returned
C16_SuccessRecorded ==
    [][(proc["w"].pc = "write" /\ proc'["w"].pc = "idle" /\ proc'["w"].res = "ok") =>
          \E b \in 1..Len(books') :
              /\ books'[b].issue_id = proc["w"].issue
              /\ books'[b].production_status = "COMPLETED"
              /\ books'[b].pdf_url = proc["w"].url
              /\ books'[b].produced_at # 0]_vars

\* C18: when the worker's job ends in an exception, the books table holds a
\* FAILED row of the issue without a locator
C18_FailureRecorded ==
    [][(proc["w"].pc = "gen" /\ proc'["w"].pc = "idle"
          /\ proc'["w"].res \in {"ValueError", "RenderError", "UploadError"}) =>
          \E b \in 1..Len(books') :
              /\ books'[b].issue_id = proc["w"].issue
              /\ books'[b].production_status = "FAILED"
              /\ books'[b].pdf_url = 0]_vars

\* C19: the pipeline's step from the posts read on leaves issues, posts and
\* books as they are, and for an issue without posts it ends with ValueError
\* with nothing rendered and nothing uploaded
C19_AggregateNotReady ==
    [][\A p \in Procs :
          (proc[p].pc = "gen" /\ proc'[p] # proc[p]) =>
              /\ issues' = issues /\ posts' = posts /\ books' = books
              /\ posts[proc[p].issue] = 0 =>
                    /\ proc'[p].pc = "idle" /\ proc'[p].res = "ValueError"
                    /\ store'.renders = store.renders
                    /\ store'.uploads = store.uploads]_vars

C19_Witness ==
    \E p \in Procs :
        /\ proc[p].pc = "idle" /\ proc[p].res = "ValueError"
        /\ proc[p].issue \in IssueIds /\ posts[proc[p].issue] = 0
        /\ store.renders = 0

\* C20: whichever images of a post fail, generate_pdf completes, the
\* document has one section per post, and each section holds the post's
\* text and exactly the images that were fetched
C20_ImageFailuresTolerated ==
    render.out # NoOut =>
        /\ render.out.err = ""
        /\ Len(render.out.sections) = Len(render.posts)
        /\ \A i \in 1..Len(render.out.sections) :
              LET sec == render.out.sections[i]
              IN /\ sec.text = i
                 /\ {sec.cells[j] : j \in 1..Len(sec.cells)} \ {0} = render.posts[i].ok

\* Issues of the seeded tables
SeedIssues == 1..3

LacksCompletedBook(i) ==
    /\ issues[i].status = "CLOSED"
    /\ \A b \in BooksOf(i) : books[b].production_status # "COMPLETED"

Enqueued(i) == \E k \in 1..Len(queue) : queue[k] = i

\* C21: every CLOSED issue lacking a COMPLETED book is eventually put on the
\* queue, and eventually has a book that is COMPLETED or FAILED
C21_NoAbandonedIssue ==
    \A i \in SeedIssues :
        /\ LacksCompletedBook(i) ~> (Enqueued(i) \/ ~LacksCompletedBook(i))
        /\ LacksCompletedBook(i) ~>
              (\E b \in BooksOf(i) : books[b].production_status \in {"COMPLETED", "FAILED"})

\* C22: the attempts on an issue whose job fails every time (it has no
\* posts) come to an end, with the issue's book FAILED from then on
C22_BoundedRetries ==
    \A i \in SeedIssues :
        (issues[i].status = "CLOSED" /\ posts[i] = 0) =>
            <>[](/\ ~(proc["w"].pc # "idle" /\ proc["w"].issue = i)
                 /\ \E b \in BooksOf(i) : books[b].production_status = "FAILED")

\* A task is between the start of generate_issue_pdf and its return
InPipeline(p) == proc[p].pc \in {"gen", "lookup", "write"}

\* C23: no two tasks are inside generate_issue_pdf for the same issue at the
\* same time
C23_PipelineSerialized ==
    \A p, q \in Procs :
        (InPipeline(p) /\ InPipeline(q) /\ proc[p].issue = proc[q].issue) => p = q

AscByCreatedAtThenId(table) ==
    CHOOSE s \in Orderings(DOMAIN table) :
        \A a, b \in 1..Len(s) : a < b =>
            \/ table[s[a]].created_at < table[s[b]].created_at
            \/ table[s[a]].created_at = table[s[b]].created_at /\ s[a] < s[b]

\* C25: every read of an issue's posts returns each post once, in ascending
\* created_at order with ties in identity order, so two reads of the same
\* issue return the same list
C25_AggregationOrder ==
    \A k \in 1..Len(agg.runs) : agg.runs[k] = AscByCreatedAtThenId(agg.table)

\* C26: building the post data never ends with an exception of the author
\* lookup: every post read gets a label
C26_AuthorFailureTolerated ==
    (agg.data # NoData /\ agg.data.err # "ValueError") =>
        /\ agg.data.err = ""
        /\ Len(agg.data.rows) = Len(agg.runs[Len(agg.runs)])

NeverClosedEarly ==
    \A i \in IssueIds :
        (issues[i].status = "OPEN" /\ issues'[i].status = "CLOSED") =>
            today > issues[i].deadline_date

\* No issue that existed when a finished sweep run began, with a
\* deadline_date before the day of that run, is still OPEN
ClosedByFinishedRuns ==
    \A s \in Sweepers : \A k \in 1..Len(hist.runs[s]) :
        LET r == hist.runs[s][k]
        IN \A i \in 1..r.n0 :
              issues[i].status = "OPEN" => ~(issues[i].deadline_date < r.day)

\* C28: the sweep closes an OPEN issue only when today is after its
\* deadline_date, and a sweep run leaves no OPEN issue of an active group
\* whose deadline_date is before the day of the run
C28_SweepClosesExpired == [][NeverClosedEarly]_vars /\ []ClosedByFinishedRuns

\* C29: no issue ever holds more than MAX_POSTS_PER_ISSUE committed posts
C29_PostsBounded ==
    \A i \in 1..Len(posts) : posts[i] <= MAX_POSTS_PER_ISSUE

\* C30: the step in which a post request answers success commits one post
\* to its issue, and that issue is OPEN and is the current issue of its
\* group
C30_SuccessIsDurable ==
    [][\A r \in PostReqs :
          (preq[r].pc = "insert" /\ preq'[r].pc = "idle" /\ preq'[r].res = 200) =>
              LET i == preq[r].issue
              IN /\ posts'[i] = posts[i] + 1
                 /\ issues[i].status = "OPEN"
                 /\ get_current_issue(issues[i].group_id) = i]_vars

====
